---- MODULE Spec2Model ----
(***************************************************************************)
(* Model of the DS18B20 driver of src/ds18b20.cpp: the four public         *)
(* operations search, trigger_temperature_conversion, get_temperature and  *)
(* set_resolution, each split at its calls into the 1-Wire transport.      *)
(* The transport (onewire_bus_reset, onewire_bus_write_bytes,              *)
(* onewire_bus_read_bytes, the device iterator) is the environment: every  *)
(* call is logged in `calls` with the result the transport chose.          *)
(*                                                                         *)
(* `temperature` is the caller's float output slot, kept in sixteenths of  *)
(* a degree: the code divides an integer in 0..65535 by 16.0f, which is    *)
(* exact in binary32, so value * 16 is that integer.                       *)
(***************************************************************************)
EXTENDS Integers, Sequences, FiniteSets, TLC

(* ------------------------------ bounds --------------------------------- *)
\* largest max_instances argument tried by search
MaxInstances == 3
\* largest number of devices the simulated bus exposes
MaxDevices == 4

(* ---------------------- protocol constants ----------------------------- *)
DS18B20_CMD_CONVERT_TEMP == 68       \* 0x44
DS18B20_CMD_WRITE_SCRATCHPAD == 78   \* 0x4E
DS18B20_CMD_READ_SCRATCHPAD == 190   \* 0xBE
ONEWIRE_CMD_MATCH_ROM == 85          \* 0x55
ONEWIRE_CMD_SKIP_ROM == 204          \* 0xCC
RESOLUTION_12B == 127                \* 0x7F
RESOLUTION_11B == 95                 \* 0x5F
RESOLUTION_10B == 63                 \* 0x3F
RESOLUTION_9B == 31                  \* 0x1F
resolution_t == {RESOLUTION_12B, RESOLUTION_11B, RESOLUTION_10B, RESOLUTION_9B}

ESP_OK == "ESP_OK"
ESP_FAIL == "ESP_FAIL"
ESP_ERR_INVALID_ARG == "ESP_ERR_INVALID_ARG"
ESP_ERR_NOT_FOUND == "ESP_ERR_NOT_FOUND"
ESP_ERR_INVALID_CRC == "ESP_ERR_INVALID_CRC"
ESP_ERR_TIMEOUT == "ESP_ERR_TIMEOUT"

\* a null pointer argument (rom_number == NULL)
NULL == <<>>
\* the return value of a call that has not returned
NoRet == "none"
\* a rom_id_buffer slot or scratchpad that was never written
Unwritten == <<>>

(* ----------------------------- bit helpers ----------------------------- *)
RECURSIVE BitAnd(_, _)
BitAnd(a, b) ==
    IF a = 0 \/ b = 0 THEN 0
    ELSE (IF a % 2 = 1 /\ b % 2 = 1 THEN 1 ELSE 0) + 2 * BitAnd(a \div 2, b \div 2)

RECURSIVE BitXor(_, _)
BitXor(a, b) ==
    IF a = 0 THEN b
    ELSE IF b = 0 THEN a
    ELSE (((a % 2) + (b % 2)) % 2) + 2 * BitXor(a \div 2, b \div 2)

\* ~x of a uint8_t promoted to int, restricted to the low 8 bits that the
\* following & with a uint8_t keeps
BitNot8(x) == 255 - x

(* ------------------------ 1-Wire CRC-8 (Maxim) ------------------------- *)
\* one bit of the reflected polynomial x^8 + x^5 + x^4 + 1 (0x8C)
crc8_shift(crc) ==
    IF crc % 2 = 1 THEN BitXor(crc \div 2, 140) ELSE crc \div 2

RECURSIVE crc8_bits(_, _)
crc8_bits(crc, n) == IF n = 0 THEN crc ELSE crc8_bits(crc8_shift(crc), n - 1)

\* the 256-entry table of the byte-wise CRC: entry i at index i
dscrc_table == [i \in 0 .. 255 |-> crc8_bits(i, 8)]

\* crc = init_crc; for each input byte: crc = dscrc_table[crc ^ byte]
RECURSIVE onewire_crc8(_, _, _)
onewire_crc8(init_crc, input, input_size) ==
    IF input_size = 0 THEN init_crc
    ELSE dscrc_table[BitXor(onewire_crc8(init_crc, input, input_size - 1),
                            input[input_size])]

(* ------------------------- inputs of the model ------------------------- *)
\* the i-th device of the simulated bus: family code 0x28, six serial bytes
\* that differ from byte to byte and from device to device, and a last byte
Device(i) == <<40, (16 * i) + 1, (16 * i) + 2, (16 * i) + 3, (16 * i) + 4,
               (16 * i) + 5, (16 * i) + 6, (16 * i) + 7>>

\* rom_number arguments: NULL, or a pointer to an 8-byte address
RomNumbers == {NULL, Device(1)}

\* temperature bytes the device may send (LSB, MSB) and the bytes 2, 3, 5, 6, 7
\* of the scratchpad, as a DS18B20 sends them after power-on
LsbValues == {0, 80, 240, 255}
MsbValues == {0, 5, 255}
ScratchpadRest == <<75, 70, 255, 12, 16>>
ConfigurationValues == 0 .. 255

\* the first 8 bytes of a scratchpad with the given LSB, MSB and configuration
BodyOf(l, m, c) ==
    <<l, m, ScratchpadRest[1], ScratchpadRest[2], c,
      ScratchpadRest[3], ScratchpadRest[4], ScratchpadRest[5]>>

\* results onewire_bus_reset may give: ESP_ERR_NOT_FOUND is "no presence pulse"
ResetResults == {ESP_OK, ESP_ERR_NOT_FOUND, ESP_FAIL}
WriteResults == {ESP_OK, ESP_ERR_TIMEOUT}
ReadResults == {ESP_OK, ESP_FAIL}
\* what the caller's float slot may hold before the call, in sixteenths
InitialTemperatures == {-1, 1360}

(* -------------------------------- state -------------------------------- *)
VARIABLES
    pc,              \* position of the running call: "idle", a step, "done", "aborted"
    op,              \* the operation called
    handle,          \* argument: TRUE for a non-null onewire_bus_handle_t
    rom_number,      \* argument: NULL or the 8 address bytes pointed to
    temperature_ptr, \* argument of get_temperature: TRUE for a non-null float*
    resolution,      \* argument of set_resolution
    max_instances,   \* argument of search
    bus,             \* the addresses the device iterator has to deliver, in order
    calls,           \* the transport calls issued by the running call, in order
    ret,             \* the esp_err_t returned
    found,           \* the uint8_t returned by search
    scratchpad,      \* the 9 bytes read by get_temperature
    lsb_mask_index,  \* scratchpad.configuration >> 5, as used to index lsb_mask
    lsb_masked,      \* local of get_temperature
    temperature,     \* the caller's output slot, in sixteenths of a degree
    temperature0,    \* what the slot held when the call started
    device_num,      \* local of search
    rom_id_buffer    \* the caller's address buffer, slot i at index i + 1

vars == <<pc, op, handle, rom_number, temperature_ptr, resolution, max_instances,
          bus, calls, ret, found, scratchpad, lsb_mask_index, lsb_masked, temperature,
          temperature0, device_num, rom_id_buffer>>

argVars == <<op, handle, rom_number, temperature_ptr, resolution, max_instances, bus>>
decodeVars == <<scratchpad, lsb_mask_index, lsb_masked, temperature>>
searchVars == <<device_num, rom_id_buffer, found>>

\* one logged transport call: the primitive, the bytes written (or <<>>),
\* the number of bytes asked for by a read, and the result the transport gave
Call(fn, data, len, res) == [fn |-> fn, data |-> data, len |-> len, res |-> res]

Init ==
    /\ pc = "idle"
    /\ op = "none"
    /\ handle = FALSE
    /\ rom_number = NULL
    /\ temperature_ptr = FALSE
    /\ resolution = RESOLUTION_12B
    /\ max_instances = 0
    /\ bus = <<>>
    /\ calls = <<>>
    /\ ret = NoRet
    /\ found = 0
    /\ scratchpad = Unwritten
    /\ lsb_mask_index = 0
    /\ lsb_masked = 0
    /\ temperature \in InitialTemperatures
    /\ temperature0 = temperature
    /\ device_num = 0
    /\ rom_id_buffer = [i \in 1 .. (MaxInstances + 1) |-> Unwritten]

(* ------------------- trigger_temperature_conversion -------------------- *)
\* tx_buffer[0 .. tx_buffer_size - 1] as built at lines 98-110
trigger_tx_buffer(rom) ==
    IF rom # NULL
    THEN <<ONEWIRE_CMD_MATCH_ROM>> \o rom \o <<DS18B20_CMD_CONVERT_TEMP>>
    ELSE <<ONEWIRE_CMD_SKIP_ROM, DS18B20_CMD_CONVERT_TEMP>>

\* variant: the handle check is missing
trigger_temperature_conversion_unchecked ==
    /\ pc = "idle"
    /\ \E h \in BOOLEAN, rom \in RomNumbers :
         /\ op' = "trigger_temperature_conversion"
         /\ handle' = h
         /\ rom_number' = rom
         /\ ret' = ret
         /\ pc' = "trigger_reset"
    /\ UNCHANGED <<temperature_ptr, resolution, max_instances, bus, calls,
                   decodeVars, temperature0, searchVars>>

\* the call and its handle check
trigger_temperature_conversion ==
    /\ pc = "idle"
    /\ \E h \in BOOLEAN, rom \in RomNumbers :
         /\ op' = "trigger_temperature_conversion"
         /\ handle' = h
         /\ rom_number' = rom
         /\ IF ~h
            THEN ret' = ESP_ERR_INVALID_ARG /\ pc' = "done"
            ELSE ret' = ret /\ pc' = "trigger_reset"
    /\ UNCHANGED <<temperature_ptr, resolution, max_instances, bus, calls,
                   decodeVars, temperature0, searchVars>>

trigger_reset ==
    /\ pc = "trigger_reset"
    /\ \E r \in ResetResults :
         /\ calls' = Append(calls, Call("onewire_bus_reset", <<>>, 0, r))
         /\ IF r # ESP_OK
            THEN ret' = r /\ pc' = "done"
            ELSE ret' = ret /\ pc' = "trigger_write"
    /\ UNCHANGED <<argVars, decodeVars, temperature0, searchVars>>

\* variant: a failed frame write is tried a second time
trigger_write_retry ==
    /\ pc = "trigger_write"
    /\ \E r \in WriteResults :
         /\ calls' = Append(calls, Call("onewire_bus_write_bytes",
                                        trigger_tx_buffer(rom_number), 0, r))
         /\ IF r # ESP_OK /\ Len(calls) < 2
            THEN ret' = ret /\ pc' = "trigger_write"
            ELSE ret' = r /\ pc' = "done"
    /\ UNCHANGED <<argVars, decodeVars, temperature0, searchVars>>

trigger_write ==
    /\ pc = "trigger_write"
    /\ \E r \in WriteResults :
         /\ calls' = Append(calls, Call("onewire_bus_write_bytes",
                                        trigger_tx_buffer(rom_number), 0, r))
         /\ ret' = r
         /\ pc' = "done"
    /\ UNCHANGED <<argVars, decodeVars, temperature0, searchVars>>

(* --------------------------- get_temperature --------------------------- *)
\* variant: the addressed frame carries the opcode of another command
get_tx_buffer_wrong_command(rom) ==
    IF rom # NULL
    THEN <<ONEWIRE_CMD_MATCH_ROM>> \o rom \o <<DS18B20_CMD_CONVERT_TEMP>>
    ELSE <<ONEWIRE_CMD_SKIP_ROM, DS18B20_CMD_READ_SCRATCHPAD>>

get_tx_buffer(rom) ==
    IF rom # NULL
    THEN <<ONEWIRE_CMD_MATCH_ROM>> \o rom \o <<DS18B20_CMD_READ_SCRATCHPAD>>
    ELSE <<ONEWIRE_CMD_SKIP_ROM, DS18B20_CMD_READ_SCRATCHPAD>>

\* variant: the CRC is taken over 7 bytes and compared with the 8th
crc_matches_off_by_one(sp) == onewire_crc8(0, sp, 7) = sp[8]

\* onewire_crc8(0, &scratchpad, 8) == scratchpad.crc_value
crc_matches(sp) == onewire_crc8(0, sp, 8) = sp[9]

\* variant: the table in the opposite order
lsb_mask_reversed == <<0, 1, 3, 7>>

\* static const uint8_t lsb_mask[4], element i at index i + 1
lsb_mask == <<7, 3, 1, 0>>

\* scratchpad.configuration >> 5 on a uint8_t: 0 .. 7
mask_index(configuration) == configuration \div 32

\* the values lsb_mask[i] can read: the table entry for i < 4; for i >= 4 the
\* read is past the end of the 4-byte table and yields whatever byte follows it
lsb_mask_read(i) == IF i < 4 THEN {lsb_mask[i + 1]} ELSE 0 .. 255

\* scratchpad.temp_lsb & (~mask), stored in a uint8_t
mask_lsb(temp_lsb, mask) == BitAnd(temp_lsb, BitNot8(mask))

\* variant: the two temperature bytes are combined in the opposite order
decode_temperature_swapped(temp_msb, masked) == (masked * 256) + temp_msb

\* ((static_cast<uint16_t>(temp_msb) << 8) | lsb_masked) / 16.0f, in sixteenths:
\* the operand is promoted to int and is never negative
decode_temperature(temp_msb, masked) == (temp_msb * 256) + masked

\* variant: the output pointer is not checked
get_temperature_unchecked_output ==
    /\ pc = "idle"
    /\ \E h \in BOOLEAN, rom \in RomNumbers, t \in BOOLEAN :
         /\ op' = "get_temperature"
         /\ handle' = h
         /\ rom_number' = rom
         /\ temperature_ptr' = t
         /\ IF ~h
            THEN ret' = ESP_ERR_INVALID_ARG /\ pc' = "done"
            ELSE ret' = ret /\ pc' = "get_reset"
    /\ UNCHANGED <<resolution, max_instances, bus, calls, decodeVars,
                   temperature0, searchVars>>

\* the call and its two argument checks
get_temperature ==
    /\ pc = "idle"
    /\ \E h \in BOOLEAN, rom \in RomNumbers, t \in BOOLEAN :
         /\ op' = "get_temperature"
         /\ handle' = h
         /\ rom_number' = rom
         /\ temperature_ptr' = t
         /\ IF ~h \/ ~t
            THEN ret' = ESP_ERR_INVALID_ARG /\ pc' = "done"
            ELSE ret' = ret /\ pc' = "get_reset"
    /\ UNCHANGED <<resolution, max_instances, bus, calls, decodeVars,
                   temperature0, searchVars>>

get_reset ==
    /\ pc = "get_reset"
    /\ \E r \in ResetResults :
         /\ calls' = Append(calls, Call("onewire_bus_reset", <<>>, 0, r))
         /\ IF r # ESP_OK
            THEN ret' = r /\ pc' = "done"
            ELSE ret' = ret /\ pc' = "get_write"
    /\ UNCHANGED <<argVars, decodeVars, temperature0, searchVars>>

get_write ==
    /\ pc = "get_write"
    /\ \E r \in WriteResults :
         /\ calls' = Append(calls, Call("onewire_bus_write_bytes",
                                        get_tx_buffer(rom_number), 0, r))
         /\ IF r # ESP_OK
            THEN ret' = r /\ pc' = "done"
            ELSE ret' = ret /\ pc' = "get_read"
    /\ UNCHANGED <<argVars, decodeVars, temperature0, searchVars>>

\* the CRC bytes tried for a scratchpad body: the right one, one bit flipped,
\* all bits flipped
CrcBytes(body) ==
    LET good == onewire_crc8(0, body, 8)
    IN  {good, BitXor(good, 1), BitXor(good, 255)}

get_read ==
    /\ pc = "get_read"
    /\ \E r \in ReadResults :
         /\ calls' = Append(calls, Call("onewire_bus_read_bytes", <<>>, 9, r))
         /\ IF r # ESP_OK
            THEN /\ ret' = r
                 /\ pc' = "done"
                 /\ scratchpad' = scratchpad
            ELSE /\ ret' = ret
                 /\ pc' = "get_crc"
                 /\ \E l \in LsbValues, m \in MsbValues, c \in ConfigurationValues :
                      \E k \in CrcBytes(BodyOf(l, m, c)) :
                         scratchpad' = BodyOf(l, m, c) \o <<k>>
    /\ UNCHANGED <<argVars, lsb_mask_index, lsb_masked, temperature,
                   temperature0, searchVars>>

\* variant: the output slot is written before the CRC is checked
get_decode_early_write ==
    /\ pc = "get_crc"
    /\ lsb_mask_index' = mask_index(scratchpad[5])
    /\ \E mask \in lsb_mask_read(mask_index(scratchpad[5])) :
         lsb_masked' = mask_lsb(scratchpad[1], mask)
    /\ temperature' = decode_temperature(scratchpad[2], lsb_masked')
    /\ ret' = IF ~crc_matches(scratchpad) THEN ESP_ERR_INVALID_CRC ELSE ESP_OK
    /\ pc' = "done"
    /\ UNCHANGED <<argVars, calls, scratchpad, temperature0, searchVars>>

\* CRC check, masking and conversion (lines 152-159)
get_decode ==
    /\ pc = "get_crc"
    /\ IF ~crc_matches(scratchpad)
       THEN /\ ret' = ESP_ERR_INVALID_CRC
            /\ UNCHANGED <<lsb_mask_index, lsb_masked, temperature>>
       ELSE /\ lsb_mask_index' = mask_index(scratchpad[5])
            /\ \E mask \in lsb_mask_read(mask_index(scratchpad[5])) :
                 lsb_masked' = mask_lsb(scratchpad[1], mask)
            /\ temperature' = decode_temperature(scratchpad[2], lsb_masked')
            /\ ret' = ESP_OK
    /\ pc' = "done"
    /\ UNCHANGED <<argVars, calls, scratchpad, temperature0, searchVars>>

(* ---------------------------- set_resolution --------------------------- *)
set_tx_buffer(rom) ==
    IF rom # NULL
    THEN <<ONEWIRE_CMD_MATCH_ROM>> \o rom \o <<DS18B20_CMD_WRITE_SCRATCHPAD>>
    ELSE <<ONEWIRE_CMD_SKIP_ROM, DS18B20_CMD_WRITE_SCRATCHPAD>>

\* variant: the configuration byte is put first instead of last
set_payload_config_first(res) == <<res, 0, 0>>

\* tx_buffer[0 .. 2] as rewritten at lines 190-192
set_payload(res) == <<0, 0, res>>

set_resolution ==
    /\ pc = "idle"
    /\ \E h \in BOOLEAN, rom \in RomNumbers, res \in resolution_t :
         /\ op' = "set_resolution"
         /\ handle' = h
         /\ rom_number' = rom
         /\ resolution' = res
         /\ IF ~h
            THEN ret' = ESP_ERR_INVALID_ARG /\ pc' = "done"
            ELSE ret' = ret /\ pc' = "set_reset"
    /\ UNCHANGED <<temperature_ptr, max_instances, bus, calls, decodeVars,
                   temperature0, searchVars>>

set_reset ==
    /\ pc = "set_reset"
    /\ \E r \in ResetResults :
         /\ calls' = Append(calls, Call("onewire_bus_reset", <<>>, 0, r))
         /\ IF r # ESP_OK
            THEN ret' = r /\ pc' = "done"
            ELSE ret' = ret /\ pc' = "set_write"
    /\ UNCHANGED <<argVars, decodeVars, temperature0, searchVars>>

\* variant: the result of the frame write is not checked
set_write_ignoring_error ==
    /\ pc = "set_write"
    /\ \E r \in WriteResults :
         /\ calls' = Append(calls, Call("onewire_bus_write_bytes",
                                        set_tx_buffer(rom_number), 0, r))
         /\ ret' = ret
         /\ pc' = "set_payload"
    /\ UNCHANGED <<argVars, decodeVars, temperature0, searchVars>>

set_write ==
    /\ pc = "set_write"
    /\ \E r \in WriteResults :
         /\ calls' = Append(calls, Call("onewire_bus_write_bytes",
                                        set_tx_buffer(rom_number), 0, r))
         /\ IF r # ESP_OK
            THEN ret' = r /\ pc' = "done"
            ELSE ret' = ret /\ pc' = "set_payload"
    /\ UNCHANGED <<argVars, decodeVars, temperature0, searchVars>>

set_write_payload ==
    /\ pc = "set_payload"
    /\ \E r \in WriteResults :
         /\ calls' = Append(calls, Call("onewire_bus_write_bytes",
                                        set_payload(resolution), 0, r))
         /\ ret' = r
         /\ pc' = "done"
    /\ UNCHANGED <<argVars, decodeVars, temperature0, searchVars>>

(* -------------------------------- search ------------------------------- *)
NewIterResults == {ESP_OK, ESP_ERR_INVALID_ARG}
\* failures of onewire_device_iter_get_next other than "no more devices"
IterErrors == {ESP_FAIL}
DelIterResults == {ESP_OK, ESP_ERR_INVALID_ARG}

\* what onewire_device_iter_get_next may answer after `delivered` addresses
IterResults(delivered) ==
    IF delivered < Len(bus) THEN {ESP_OK} \cup IterErrors
    ELSE {ESP_ERR_NOT_FOUND} \cup IterErrors

\* the loop condition of the do-while, tested after the body
search_continue(num, max) == num < max

\* the call and the creation of the search context; ESP_ERROR_CHECK aborts the
\* program when the creation fails. The handle is passed on unchecked.
search ==
    /\ pc = "idle"
    /\ \E h \in BOOLEAN, n \in 0 .. MaxInstances, m \in 0 .. MaxDevices,
          r \in NewIterResults :
         /\ op' = "search"
         /\ handle' = h
         /\ max_instances' = n
         /\ bus' = [i \in 1 .. m |-> Device(i)]
         /\ calls' = Append(calls, Call("onewire_new_device_iter", <<>>, 0, r))
         /\ pc' = IF r # ESP_OK THEN "aborted" ELSE "search_get_next"
    /\ device_num' = 0
    /\ UNCHANGED <<rom_number, temperature_ptr, resolution, ret, decodeVars,
                   temperature0, rom_id_buffer, found>>

\* variant: the address is stored and counted before the result is looked at
search_get_next_store_first ==
    /\ pc = "search_get_next"
    /\ \E search_result \in IterResults(device_num) :
         /\ calls' = Append(calls, Call("onewire_device_iter_get_next",
                               IF search_result = ESP_OK
                               THEN bus[device_num + 1] ELSE <<>>, 0, search_result))
         /\ rom_id_buffer' =
                [rom_id_buffer EXCEPT ![device_num + 1] =
                    IF search_result = ESP_OK THEN bus[device_num + 1] ELSE Device(0)]
         /\ device_num' = (device_num + 1) % 256
         /\ pc' = IF search_result = ESP_OK /\ search_continue(device_num', max_instances)
                  THEN "search_get_next" ELSE "search_del_iter"
    /\ UNCHANGED <<argVars, ret, found, decodeVars, temperature0>>

\* variant: an iteration error returns from inside the loop, past the deletion
search_get_next_return_on_error ==
    /\ pc = "search_get_next"
    /\ \E search_result \in IterResults(device_num) :
         IF search_result # ESP_OK
         THEN /\ calls' = Append(calls, Call("onewire_device_iter_get_next",
                                             <<>>, 0, search_result))
              /\ IF search_result = ESP_ERR_NOT_FOUND
                 THEN pc' = "search_del_iter" /\ found' = found
                 ELSE pc' = "done" /\ found' = device_num
              /\ UNCHANGED <<device_num, rom_id_buffer>>
         ELSE /\ calls' = Append(calls, Call("onewire_device_iter_get_next",
                                             bus[device_num + 1], 0, search_result))
              /\ rom_id_buffer' =
                     [rom_id_buffer EXCEPT ![device_num + 1] = bus[device_num + 1]]
              /\ device_num' = (device_num + 1) % 256
              /\ found' = found
              /\ pc' = IF search_continue(device_num', max_instances)
                       THEN "search_get_next" ELSE "search_del_iter"
    /\ UNCHANGED <<argVars, ret, decodeVars, temperature0>>

\* one pass of the do-while body and its condition (lines 68-79)
search_get_next ==
    /\ pc = "search_get_next"
    /\ \E search_result \in IterResults(device_num) :
         IF search_result # ESP_OK
         THEN /\ calls' = Append(calls, Call("onewire_device_iter_get_next",
                                             <<>>, 0, search_result))
              /\ pc' = "search_del_iter"
              /\ UNCHANGED <<device_num, rom_id_buffer>>
         ELSE /\ calls' = Append(calls, Call("onewire_device_iter_get_next",
                                             bus[device_num + 1], 0, search_result))
              /\ rom_id_buffer' =
                     [rom_id_buffer EXCEPT ![device_num + 1] = bus[device_num + 1]]
              /\ device_num' = (device_num + 1) % 256
              /\ pc' = IF search_continue(device_num', max_instances)
                       THEN "search_get_next" ELSE "search_del_iter"
    /\ UNCHANGED <<argVars, ret, found, decodeVars, temperature0>>

\* deletion of the search context and return (lines 82-85)
search_del_iter ==
    /\ pc = "search_del_iter"
    /\ \E r \in DelIterResults :
         /\ calls' = Append(calls, Call("onewire_del_device_iter", <<>>, 0, r))
         /\ IF r # ESP_OK
            THEN found' = found /\ pc' = "aborted"
            ELSE found' = device_num /\ pc' = "done"
    /\ UNCHANGED <<argVars, ret, decodeVars, temperature0, device_num, rom_id_buffer>>

(* ------------------------------ behaviour ------------------------------ *)
Next ==
    \/ trigger_temperature_conversion
    \/ trigger_reset
    \/ trigger_write
    \/ get_temperature
    \/ get_reset
    \/ get_write
    \/ get_read
    \/ get_decode
    \/ set_resolution
    \/ set_reset
    \/ set_write
    \/ set_write_payload
    \/ search
    \/ search_get_next
    \/ search_del_iter

Spec == Init /\ [][Next]_vars

(* ------------------------- shared vocabulary --------------------------- *)
CommandOps == {"trigger_temperature_conversion", "get_temperature", "set_resolution"}

\* the command opcode each operation puts in its frame
CommandOf(o) ==
    CASE o = "trigger_temperature_conversion" -> DS18B20_CMD_CONVERT_TEMP
      [] o = "get_temperature" -> DS18B20_CMD_READ_SCRATCHPAD
      [] o = "set_resolution" -> DS18B20_CMD_WRITE_SCRATCHPAD

Returned == pc = "done"

\* get_temperature has read 9 bytes from the transport
ScratchpadRead == op = "get_temperature" /\ scratchpad # Unwritten

\* the 16-bit value v read as two's complement
Signed16(v) == IF v >= 32768 THEN v - 65536 ELSE v

RECURSIVE Pow2(_)
Pow2(n) == IF n = 0 THEN 1 ELSE 2 * Pow2(n - 1)

\* how many low LSB bits are not meaningful at a resolution setting
ClearedBits(r) ==
    CASE r = RESOLUTION_9B -> 3
      [] r = RESOLUTION_10B -> 2
      [] r = RESOLUTION_11B -> 1
      [] r = RESOLUTION_12B -> 0

\* the rom_id_buffer indices (from 0) that hold an address
WrittenSlots == {i \in 0 .. MaxInstances : rom_id_buffer[i + 1] # Unwritten}

\* call i of the log is an iterator step that failed with something other
\* than exhaustion
IterErrorAt(i) ==
    /\ calls[i].fn = "onewire_device_iter_get_next"
    /\ calls[i].res \notin {ESP_OK, ESP_ERR_NOT_FOUND}

NoIterError == \A i \in 1 .. Len(calls) : ~IterErrorAt(i)

(* ------------------------------- claims -------------------------------- *)
\* C1 (as stated): in all four operations a null handle gives Invalid-Argument
\* and no transport call at all.
C1_NullHandleAllOps ==
    (op # "none" /\ ~handle) =>
        /\ calls = <<>>
        /\ pc = "done"
        /\ ret = ESP_ERR_INVALID_ARG

\* C1 (amended): in trigger_temperature_conversion, get_temperature and
\* set_resolution a null handle gives Invalid-Argument and no transport call,
\* whatever the other arguments; search has no handle check and hands the
\* handle to the iterator creation, its first transport call.
C1_NullHandleCommandOps ==
    /\ (op \in CommandOps /\ ~handle) =>
          /\ calls = <<>>
          /\ pc = "done"
          /\ ret = ESP_ERR_INVALID_ARG
    /\ (op = "search" /\ ~handle) =>
          /\ calls # <<>>
          /\ calls[1].fn = "onewire_new_device_iter"
          /\ ret = NoRet

C1_Witness ==
    /\ op = "get_temperature"
    /\ ~handle
    /\ temperature_ptr
    /\ rom_number # NULL
    /\ Returned
    /\ ret = ESP_ERR_INVALID_ARG

\* C2: get_temperature succeeds only on a scratchpad whose 9th byte is the
\* CRC-8 (seed 0) of its first 8 bytes; a scratchpad read with any other 9th
\* byte gives ESP_ERR_INVALID_CRC and no temperature.
C2_CrcGate ==
    /\ (op = "get_temperature" /\ Returned /\ ret = ESP_OK) =>
          /\ scratchpad # Unwritten
          /\ Len(scratchpad) = 9
          /\ onewire_crc8(0, SubSeq(scratchpad, 1, 8), 8) = scratchpad[9]
    /\ (ScratchpadRead /\ Returned
          /\ onewire_crc8(0, SubSeq(scratchpad, 1, 8), 8) # scratchpad[9]) =>
          /\ ret = ESP_ERR_INVALID_CRC
          /\ temperature = temperature0

C2_Witness ==
    /\ ScratchpadRead
    /\ Returned
    /\ onewire_crc8(0, SubSeq(scratchpad, 1, 8), 8) # scratchpad[9]
    /\ ret = ESP_ERR_INVALID_CRC

\* C3: the temperature written, in sixteenths, is the signed 16-bit value of
\* (MSB << 8 | masked LSB): raw 0xFFFF gives -1, raw 0xFFF0 gives -16.
C3_SignedDecode ==
    (op = "get_temperature" /\ Returned /\ ret = ESP_OK) =>
        temperature = Signed16((scratchpad[2] * 256) + lsb_masked)

\* C4: with no iteration error search returns M when M < N and N when M > N,
\* and writes exactly the buffer slots below the returned count.
C4_SearchCount ==
    (op = "search" /\ Returned /\ NoIterError) =>
        /\ (Len(bus) < max_instances => found = Len(bus))
        /\ (Len(bus) > max_instances => found = max_instances)
        /\ WrittenSlots = {i \in 0 .. MaxInstances : i < found}

\* C5: the mask-table index is the 2-bit value of configuration bits [6:5],
\* so it is within 0..3 for every configuration byte.
C5_MaskIndex ==
    (op = "get_temperature" /\ Returned /\ ret = ESP_OK) =>
        /\ lsb_mask_index = (scratchpad[5] \div 32) % 4
        /\ lsb_mask_index \in 0 .. 3

\* C6: when the configuration byte is the pattern of a resolution setting, the
\* low 3, 2, 1 or 0 bits of the LSB (9, 10, 11, 12 bit) are cleared, the other
\* LSB bits are kept, and that masked LSB is what is combined with the MSB.
C6_ResolutionMasking ==
    (op = "get_temperature" /\ Returned /\ ret = ESP_OK
        /\ scratchpad[5] \in resolution_t) =>
        /\ lsb_masked = scratchpad[1] - (scratchpad[1] % Pow2(ClearedBits(scratchpad[5])))
        /\ temperature % 256 = lsb_masked
        /\ temperature \div 256 = scratchpad[2]

C6_Witness ==
    /\ op = "get_temperature" /\ Returned /\ ret = ESP_OK
    /\ scratchpad[5] = RESOLUTION_9B
    /\ scratchpad[1] = 255
    /\ lsb_masked = 248

\* C7: in the three command operations the first write after the reset is
\* <<SKIP_ROM, command>> without an address and
\* <<MATCH_ROM, addr[0], ..., addr[7], command>> with one, and nothing else.
C7_CommandFrame ==
    (op \in CommandOps /\ Len(calls) >= 2) =>
        /\ calls[1].fn = "onewire_bus_reset"
        /\ calls[2].fn = "onewire_bus_write_bytes"
        /\ IF rom_number = NULL
           THEN calls[2].data = <<ONEWIRE_CMD_SKIP_ROM, CommandOf(op)>>
           ELSE /\ Len(calls[2].data) = 10
                /\ calls[2].data[1] = ONEWIRE_CMD_MATCH_ROM
                /\ \A i \in 1 .. 8 : calls[2].data[i + 1] = rom_number[i]
                /\ calls[2].data[10] = CommandOf(op)

C7_Witness ==
    /\ op = "get_temperature"
    /\ rom_number # NULL
    /\ Len(calls) >= 2
    /\ Len(calls[2].data) = 10
    /\ calls[2].data[10] = DS18B20_CMD_READ_SCRATCHPAD

\* C8: get_temperature writes the output slot only when it returns success;
\* on every failing return the slot holds what it held before the call.
C8_OutputOnlyOnSuccess ==
    (op = "get_temperature" /\ Returned /\ ret # ESP_OK) =>
        temperature = temperature0

C8_Witness ==
    /\ op = "get_temperature"
    /\ Returned
    /\ ret = ESP_ERR_INVALID_CRC
    /\ scratchpad[1] = 80 /\ scratchpad[2] = 5
    /\ temperature0 = -1
    /\ temperature = temperature0

\* C9: in the three command operations the first failing transport call is
\* the last call issued, and its error code is the value returned.
C9_FailFast ==
    op \in CommandOps =>
        /\ \A i \in 1 .. (Len(calls) - 1) : calls[i].res = ESP_OK
        /\ (Returned /\ calls # <<>> /\ calls[Len(calls)].res # ESP_OK) =>
              ret = calls[Len(calls)].res
        /\ (calls # <<>> /\ calls[Len(calls)].res # ESP_OK) => Returned

C9_Witness ==
    /\ op = "set_resolution"
    /\ Returned
    /\ Len(calls) = 2
    /\ calls[2].fn = "onewire_bus_write_bytes"
    /\ calls[2].res = ESP_ERR_TIMEOUT
    /\ ret = ESP_ERR_TIMEOUT

\* C10: an iterator error other than exhaustion after k < max_instances
\* addresses ends the iteration; search returns k, slots 0..k-1 hold the k
\* addresses delivered before it, in order, and nothing else is written.
C10_SearchPartial ==
    op = "search" =>
        \A i \in 1 .. Len(calls) :
            (IterErrorAt(i) /\ i - 2 < max_instances) =>
                /\ \A j \in (i + 1) .. Len(calls) :
                      calls[j].fn # "onewire_device_iter_get_next"
                /\ pc # "search_get_next"
                /\ device_num = i - 2
                /\ Returned => found = i - 2
                /\ \A j \in 1 .. (i - 2) :
                      /\ calls[j + 1].res = ESP_OK
                      /\ rom_id_buffer[j] = calls[j + 1].data
                /\ WrittenSlots = {j \in 0 .. MaxInstances : j < i - 2}

C10_Witness ==
    /\ op = "search"
    /\ Returned
    /\ Len(calls) = 5
    /\ IterErrorAt(4)
    /\ found = 2
    /\ max_instances = 3
    /\ rom_id_buffer[1] = Device(1)
    /\ rom_id_buffer[2] = Device(2)

\* the primitives of call log c, in the order issued
FnSeq(c) == [i \in 1 .. Len(c) |-> c[i].fn]

IsPrefix(s, t) == Len(s) <= Len(t) /\ \A i \in 1 .. Len(s) : s[i] = t[i]

\* the primitives each command operation is to issue, in order
PrescribedCalls(o) ==
    CASE o = "trigger_temperature_conversion" ->
            <<"onewire_bus_reset", "onewire_bus_write_bytes">>
      [] o = "get_temperature" ->
            <<"onewire_bus_reset", "onewire_bus_write_bytes", "onewire_bus_read_bytes">>
      [] o = "set_resolution" ->
            <<"onewire_bus_reset", "onewire_bus_write_bytes", "onewire_bus_write_bytes">>

AllAccepted == \A i \in 1 .. Len(calls) : calls[i].res = ESP_OK

\* C11: a set_resolution call that succeeds has issued, after the reset and the
\* WRITE_SCRATCHPAD frame, exactly one more write, of <<0, 0, resolution>>, and
\* no read; it succeeds exactly when the reset and both writes were accepted.
C11_SetResolutionPayload ==
    (op = "set_resolution" /\ Returned) =>
        /\ ret = ESP_OK <=>
              (/\ Len(calls) = 3
               /\ calls[1].fn = "onewire_bus_reset"
               /\ calls[2].fn = "onewire_bus_write_bytes"
               /\ calls[3].fn = "onewire_bus_write_bytes"
               /\ AllAccepted)
        /\ ret = ESP_OK =>
              /\ calls[2].data[Len(calls[2].data)] = DS18B20_CMD_WRITE_SCRATCHPAD
              /\ Len(calls[3].data) = 3
              /\ calls[3].data[1] = 0
              /\ calls[3].data[2] = 0
              /\ calls[3].data[3] = resolution
              /\ \A i \in 1 .. Len(calls) : calls[i].fn # "onewire_bus_read_bytes"

C11_Witness ==
    /\ op = "set_resolution"
    /\ Returned
    /\ ret = ESP_OK
    /\ resolution = RESOLUTION_9B
    /\ calls[3].data = <<0, 0, 31>>

\* C12: for a CRC-valid scratchpad with MSB bit 7 clear and configuration 0x7F
\* the temperature written is (MSB * 256 + LSB) / 16, i.e. MSB * 256 + LSB
\* sixteenths; LSB 0x50, MSB 0x05 gives 1360 sixteenths = 85.0.
C12_PositiveDecode12Bit ==
    (op = "get_temperature" /\ Returned /\ ret = ESP_OK
        /\ scratchpad[5] = RESOLUTION_12B /\ scratchpad[2] < 128) =>
        /\ temperature = (scratchpad[2] * 256) + scratchpad[1]
        /\ (scratchpad[1] = 80 /\ scratchpad[2] = 5) => temperature = 85 * 16

C12_Witness ==
    /\ op = "get_temperature" /\ Returned /\ ret = ESP_OK
    /\ scratchpad[5] = RESOLUTION_12B
    /\ scratchpad[1] = 80
    /\ scratchpad[2] = 5
    /\ temperature = 1360
    /\ temperature0 = -1

\* C13: the primitives of a command operation are issued in the prescribed
\* order, none more often than prescribed; a call that succeeds has issued all
\* of them; nothing is written or read before the reset has succeeded; the
\* read asks for 9 bytes and the CRC is checked only after it has succeeded.
C13_CallOrder ==
    op \in CommandOps =>
        /\ IsPrefix(FnSeq(calls), PrescribedCalls(op))
        /\ Len(calls) >= 2 => calls[1].res = ESP_OK
        /\ (Returned /\ ret = ESP_OK) =>
              (FnSeq(calls) = PrescribedCalls(op) /\ AllAccepted)
        /\ \A i \in 1 .. Len(calls) :
              calls[i].fn = "onewire_bus_read_bytes" => calls[i].len = 9
        /\ (op = "set_resolution" /\ Len(calls) = 3) => Len(calls[3].data) = 3
        /\ (pc = "get_crc" \/ (Returned /\ ret = ESP_ERR_INVALID_CRC)
              \/ (op = "get_temperature" /\ temperature # temperature0)) =>
              /\ Len(calls) = 3
              /\ calls[3].fn = "onewire_bus_read_bytes"
              /\ calls[3].res = ESP_OK
              /\ scratchpad # Unwritten

C13_Witness ==
    /\ op = "get_temperature"
    /\ Returned
    /\ ret = ESP_ERR_INVALID_CRC
    /\ FnSeq(calls) = PrescribedCalls(op)
    /\ AllAccepted

\* the number of addresses the iterator delivered in calls 1 .. n of the log
RECURSIVE Delivered(_)
Delivered(n) ==
    IF n = 0 THEN 0
    ELSE Delivered(n - 1) +
         (IF calls[n].fn = "onewire_device_iter_get_next" /\ calls[n].res = ESP_OK
          THEN 1 ELSE 0)

SearchRunning == op = "search" /\ pc \in {"search_get_next", "search_del_iter"}

\* C14: search always comes to its end, and asks the iterator for an address
\* only while no earlier step signalled exhaustion or an error and fewer than
\* max_instances addresses have been collected.
C14_SearchStops ==
    op = "search" =>
        /\ SearchRunning => ENABLED Next
        /\ Len(calls) <= max_instances + 3
        /\ \A i \in 2 .. Len(calls) :
              calls[i].fn = "onewire_device_iter_get_next" =>
                 /\ \A j \in 2 .. (i - 1) : calls[j].res = ESP_OK
                 /\ Delivered(i - 1) < max_instances

\* C15: search writes no buffer slot at an index >= max_instances and returns
\* no count above max_instances.
C15_NoOverrun ==
    op = "search" =>
        /\ \A i \in WrittenSlots : i < max_instances
        /\ Returned => found <= max_instances

\* C16: get_temperature with a valid handle and a null output pointer returns
\* Invalid-Argument and issues no transport call.
C16_NullOutput ==
    (op = "get_temperature" /\ handle /\ ~temperature_ptr) =>
        /\ calls = <<>>
        /\ Returned
        /\ ret = ESP_ERR_INVALID_ARG
        /\ temperature = temperature0

C16_Witness ==
    /\ op = "get_temperature"
    /\ handle
    /\ ~temperature_ptr
    /\ rom_number = NULL
    /\ Returned
    /\ ret = ESP_ERR_INVALID_ARG
    /\ calls = <<>>

\* C17: a search call creates one iterator, first of all; steps it only once
\* it exists; deletes it once, last of all; and has done so whenever it
\* returns, whichever way the loop ended.
C17_IteratorLifetime ==
    op = "search" =>
        /\ calls # <<>>
        /\ calls[1].fn = "onewire_new_device_iter"
        /\ \A i \in 2 .. Len(calls) :
              /\ calls[i].fn \in {"onewire_device_iter_get_next", "onewire_del_device_iter"}
              /\ calls[1].res = ESP_OK
              /\ calls[i].fn = "onewire_del_device_iter" => i = Len(calls)
        /\ Returned =>
              /\ Len(calls) >= 3
              /\ calls[Len(calls)].fn = "onewire_del_device_iter"
              /\ calls[Len(calls)].res = ESP_OK
              /\ \A i \in 2 .. (Len(calls) - 1) :
                    calls[i].fn = "onewire_device_iter_get_next"

C17_Witness ==
    /\ op = "search"
    /\ Returned
    /\ Len(calls) = 4
    /\ calls[2].res = ESP_OK
    /\ IterErrorAt(3)
    /\ calls[4].fn = "onewire_del_device_iter"
    /\ calls[4].res = ESP_OK

====
